---- MODULE Spec2Model ----
(***************************************************************************)
(* State-machine model of src/lse/_lse.c: the hybrid quicksort/insertion   *)
(* sort rc_sort, the array reduction rc_logsumexp and the two-argument     *)
(* rc_logsumexp_pair.                                                      *)
(*                                                                         *)
(* A double is a record [k, v]: k is "fin" (v an integer standing for the  *)
(* value), "ninf", "pinf" or "nan".  Finite values live in                 *)
(* -DBL_MAX..DBL_MAX and a finite difference outside that range overflows  *)
(* to an infinity, as IEEE-754 subtraction does; rounding of in-range      *)
(* results is not modelled.  exp and log are kept symbolic: the model      *)
(* records which arguments they are applied to, and a returned value is    *)
(* either -inf or the expression  anchor + log(1.0 + exp(t1) + ... ).      *)
(*                                                                         *)
(* One behaviour is one call of an entry point.  Arrays of up to SmallLen  *)
(* elements are enumerated exhaustively over SmallVals; longer arrays, up  *)
(* to MaxLen elements and so beyond the quicksort threshold, come from the *)
(* family Pattern (constant, few distinct values, ascending, descending    *)
(* and scrambled distinct values, with and without -inf).  Inputs hold no  *)
(* NaN and no +inf.                                                        *)
(***************************************************************************)
EXTENDS Integers, Sequences, FiniteSets

VARIABLES
    op,       \* which entry point this call is: "lse" or "pair"
    array,    \* rc_logsumexp: the caller's array, indices 0..length-1
    length,   \* rc_logsumexp: its length argument
    i,        \* rc_logsumexp: loop counter
    sum,      \* rc_logsumexp: the exp terms accumulated so far, in order
    a,        \* rc_logsumexp_pair: first argument
    b,        \* rc_logsumexp_pair: second argument
    result,   \* the value returned by the entry point
    pc,       \* position in the entry point
    stack,    \* call stack of rc_sort; the last frame is the running call
    input,    \* history: the array as the caller passed it
    access,   \* history: the array indices touched by the last rc_sort step
    expArgs,  \* history: every argument exp was evaluated on, in order
    logArgs   \* history: every argument log was evaluated on, in order

vars == <<op, array, length, i, sum, a, b, result, pc, stack, input, access,
          expArgs, logArgs>>

lseVars == <<i, sum, result, expArgs, logArgs>>

---------------------------------------------------------------------------
(* The program's constant and the bounds of the model.                     *)

\* rc_sort uses quicksort when R - L exceeds this, insertion sort otherwise.
Threshold == 25

\* Longest array passed to rc_logsumexp.
MaxLen == 30

\* Arrays up to this length are enumerated exhaustively over SmallVals.
SmallLen == 3

\* Modulus of the patterns that generate arrays of distinct values.
BigMod == 31

\* Largest finite magnitude of a double (stands for float.h's DBL_MAX).
DBL_MAX == 1000

---------------------------------------------------------------------------
(* Doubles.                                                                *)

Fin(n) == [k |-> "fin", v |-> n]
NegInf == [k |-> "ninf", v |-> 0]
PosInf == [k |-> "pinf", v |-> 0]
NaN    == [k |-> "nan", v |-> 0]

\* x < y on doubles: false whenever an operand is NaN.
Lt(x, y) ==
    /\ x.k # "nan"
    /\ y.k # "nan"
    /\ \/ x.k = "ninf" /\ y.k # "ninf"
       \/ y.k = "pinf" /\ x.k # "pinf"
       \/ x.k = "fin" /\ y.k = "fin" /\ x.v < y.v

\* x > y on doubles.
Gt(x, y) == Lt(y, x)

\* x == y on doubles: false whenever an operand is NaN.
Eq(x, y) == x.k # "nan" /\ y.k # "nan" /\ x = y

\* -x on doubles.
Neg(x) ==
    CASE x.k = "fin"  -> Fin(0 - x.v)
      [] x.k = "ninf" -> PosInf
      [] x.k = "pinf" -> NegInf
      [] OTHER        -> NaN

\* x - y on doubles: inf - inf of equal sign is NaN, a finite difference
\* beyond DBL_MAX overflows to the infinity of its sign.
Sub(x, y) ==
    CASE x.k = "nan" \/ y.k = "nan" -> NaN
      [] x.k = "fin" /\ y.k = "fin" ->
            LET d == x.v - y.v
            IN  IF d > DBL_MAX THEN PosInf
                ELSE IF d < 0 - DBL_MAX THEN NegInf
                ELSE Fin(d)
      [] x.k = "fin"                -> Neg(y)
      [] y.k = "fin"                -> x
      [] x.k = y.k                  -> NaN
      [] OTHER                      -> x

---------------------------------------------------------------------------
(* Inputs.                                                                 *)

\* The values short arrays and pairs are drawn from.
SmallVals == {NegInf, Fin(0 - DBL_MAX), Fin(0), Fin(1), Fin(DBL_MAX)}

\* Every array of length 1..SmallLen over SmallVals.
SmallArrays == UNION {[0..(n - 1) -> SmallVals] : n \in 1..SmallLen}

\* The array of length n whose element j is (j * m + o) mod k, with the
\* residue 0 replaced by -inf when ninf is set.  k = 1 gives a constant
\* array, a small k many duplicates, k = BigMod distinct values: ascending
\* for m = 1, descending for m = k - 1, scrambled otherwise.
Pattern(n, k, m, o, ninf) ==
    [j \in 0..(n - 1) |->
        LET v == (j * m + o) % k
        IN  IF ninf /\ v = 0 THEN NegInf ELSE Fin(v)]

Moduli == {1, 2, 3, 5, BigMod}
Mults == {1, 3, 5, 7, 12, 17, BigMod - 1}
Offsets == {0, 1, 5, 17}

PatternArrays ==
    {Pattern(n, k, m, o, ninf) :
        n \in 1..MaxLen, k \in Moduli, m \in Mults, o \in Offsets,
        ninf \in BOOLEAN}

Inputs == SmallArrays \cup PatternArrays

NoArray == [j \in {} |-> NaN]
NoResult == [kind |-> "none", anchor |-> NaN, terms |-> <<>>]
NoAccess == [idx |-> {}, L |-> 0, R |-> 0 - 1]

Init ==
    /\ op \in {"lse", "pair"}
    /\ IF op = "lse"
       THEN /\ array \in Inputs
            /\ a = NaN
            /\ b = NaN
       ELSE /\ array = NoArray
            /\ a \in SmallVals
            /\ b \in SmallVals
    /\ length = Cardinality(DOMAIN array)
    /\ input = array
    /\ i = 0
    /\ sum = <<>>
    /\ result = NoResult
    /\ pc = "call"
    /\ stack = <<>>
    /\ access = NoAccess
    /\ expArgs = <<>>
    /\ logArgs = <<>>

---------------------------------------------------------------------------
(* rc_sort.  A frame holds the arguments L and R, the locals l, r and swap *)
(* (uninitialised in the code until first written, and never read before), *)
(* the position pc in the body, and old, the array as it was on entry.     *)

Frame(L, R) ==
    [L |-> L, R |-> R, l |-> L, r |-> R, swap |-> NaN, pc |-> "entry",
     old |-> array]

Top == stack[Len(stack)]
SetTop(f) == [stack EXCEPT ![Len(stack)] = f]
Push(f, g) == Append(SetTop(f), g)

\* The running rc_sort call is at position p.
At(p) == pc = "sort" /\ stack # <<>> /\ Top.pc = p

\* The indices idx touched by a step of the call with frame f.
Acc(idx, f) == [idx |-> idx, L |-> f.L, R |-> f.R]

\* An access outside the caller's allocation is undefined behaviour: the
\* model records the access and assumes nothing about what follows.
Undefined(idx, f) ==
    /\ pc' = "undefined"
    /\ access' = Acc(idx, f)
    /\ UNCHANGED <<array, stack>>

\* line 21: choose the algorithm; lines 23-24 or the initialisation of the
\* outer insertion loop at line 42.
Entry ==
    /\ At("entry")
    /\ LET f == Top
       IN  stack' = SetTop(IF f.R - f.L > Threshold
                           THEN [f EXCEPT !.l = f.L - 1, !.r = f.R,
                                          !.pc = "lscan"]
                           ELSE [f EXCEPT !.l = f.L + 1, !.pc = "ins_outer"])
    /\ access' = Acc({}, Top)
    /\ UNCHANGED <<op, array, length, a, b, pc, input, lseVars>>

\* line 27: one evaluation of  array[++l] < array[R].
LScan ==
    /\ At("lscan")
    /\ LET f == Top
           l1 == f.l + 1
           idx == {l1, f.R}
       IN  IF idx \subseteq DOMAIN array
           THEN /\ stack' = SetTop([f EXCEPT
                        !.l = l1,
                        !.pc = IF Lt(array[l1], array[f.R])
                               THEN "lscan" ELSE "rscan"])
                /\ access' = Acc(idx, f)
                /\ UNCHANGED <<array, pc>>
           ELSE Undefined(idx, f)
    /\ UNCHANGED <<op, length, a, b, input, lseVars>>

\* RScan with the test r > l left out of the scan's condition.
RScanUnbounded ==
    /\ At("rscan")
    /\ LET f == Top
           r1 == f.r - 1
           idx == {r1, f.R}
       IN  IF idx \subseteq DOMAIN array
           THEN /\ stack' = SetTop([f EXCEPT
                        !.r = r1,
                        !.pc = IF Gt(array[r1], array[f.R])
                               THEN "rscan" ELSE "test"])
                /\ access' = Acc(idx, f)
                /\ UNCHANGED <<array, pc>>
           ELSE Undefined(idx, f)
    /\ UNCHANGED <<op, length, a, b, input, lseVars>>

\* line 28: one evaluation of  (array[--r] > array[R]) && (r > l).
RScan ==
    /\ At("rscan")
    /\ LET f == Top
           r1 == f.r - 1
           idx == {r1, f.R}
       IN  IF idx \subseteq DOMAIN array
           THEN /\ stack' = SetTop([f EXCEPT
                        !.r = r1,
                        !.pc = IF Gt(array[r1], array[f.R]) /\ r1 > f.l
                               THEN "rscan" ELSE "test"])
                /\ access' = Acc(idx, f)
                /\ UNCHANGED <<array, pc>>
           ELSE Undefined(idx, f)
    /\ UNCHANGED <<op, length, a, b, input, lseVars>>

\* line 29: if(l >= r) break.
Test ==
    /\ At("test")
    /\ LET f == Top
       IN  stack' = SetTop([f EXCEPT
                !.pc = IF f.l >= f.r THEN "pivot" ELSE "swap"])
    /\ access' = Acc({}, Top)
    /\ UNCHANGED <<op, array, length, a, b, pc, input, lseVars>>

\* lines 30-32: exchange array[l] and array[r], then loop.
Swap ==
    /\ At("swap")
    /\ LET f == Top
           idx == {f.l, f.r}
       IN  IF idx \subseteq DOMAIN array
           THEN /\ array' = [array EXCEPT ![f.l] = array[f.r],
                                          ![f.r] = array[f.l]]
                /\ stack' = SetTop([f EXCEPT !.swap = array[f.l],
                                             !.pc = "lscan"])
                /\ access' = Acc(idx, f)
                /\ UNCHANGED pc
           ELSE Undefined(idx, f)
    /\ UNCHANGED <<op, length, a, b, input, lseVars>>

\* PivotSwap exchanging the pivot with array[r] instead of array[l].
PivotSwapAtR ==
    /\ At("pivot")
    /\ LET f == Top
           idx == {f.r, f.R}
       IN  IF idx \subseteq DOMAIN array
           THEN /\ array' = [array EXCEPT ![f.r] = array[f.R],
                                          ![f.R] = array[f.r]]
                /\ stack' = SetTop([f EXCEPT !.swap = array[f.r],
                                             !.pc = "rec1"])
                /\ access' = Acc(idx, f)
                /\ UNCHANGED pc
           ELSE Undefined(idx, f)
    /\ UNCHANGED <<op, length, a, b, input, lseVars>>

\* lines 34-36: exchange array[l] and the pivot array[R].
PivotSwap ==
    /\ At("pivot")
    /\ LET f == Top
           idx == {f.l, f.R}
       IN  IF idx \subseteq DOMAIN array
           THEN /\ array' = [array EXCEPT ![f.l] = array[f.R],
                                          ![f.R] = array[f.l]]
                /\ stack' = SetTop([f EXCEPT !.swap = array[f.l],
                                             !.pc = "rec1"])
                /\ access' = Acc(idx, f)
                /\ UNCHANGED pc
           ELSE Undefined(idx, f)
    /\ UNCHANGED <<op, length, a, b, input, lseVars>>

\* line 37: rc_sort(array, L, l - 1).
RecLeft ==
    /\ At("rec1")
    /\ LET f == Top
       IN  stack' = Push([f EXCEPT !.pc = "rec2"], Frame(f.L, f.l - 1))
    /\ access' = Acc({}, Top)
    /\ UNCHANGED <<op, array, length, a, b, pc, input, lseVars>>

\* RecRight recursing on l..R, the pivot's position included.
RecRightFromPivot ==
    /\ At("rec2")
    /\ LET f == Top
       IN  stack' = Push([f EXCEPT !.pc = "ret"], Frame(f.l, f.R))
    /\ access' = Acc({}, Top)
    /\ UNCHANGED <<op, array, length, a, b, pc, input, lseVars>>

\* line 38: rc_sort(array, l + 1, R).
RecRight ==
    /\ At("rec2")
    /\ LET f == Top
       IN  stack' = Push([f EXCEPT !.pc = "ret"], Frame(f.l + 1, f.R))
    /\ access' = Acc({}, Top)
    /\ UNCHANGED <<op, array, length, a, b, pc, input, lseVars>>

\* line 42, loop test, and lines 44-45, start of an insertion:
\* swap = array[l]; r = l - 1.
InsOuter ==
    /\ At("ins_outer")
    /\ LET f == Top
           idx == IF f.l <= f.R THEN {f.l} ELSE {}
       IN  IF idx \subseteq DOMAIN array
           THEN /\ stack' = SetTop(IF f.l <= f.R
                                   THEN [f EXCEPT !.swap = array[f.l],
                                                  !.r = f.l - 1,
                                                  !.pc = "ins_inner"]
                                   ELSE [f EXCEPT !.pc = "ret"])
                /\ access' = Acc(idx, f)
                /\ UNCHANGED <<array, pc>>
           ELSE Undefined(idx, f)
    /\ UNCHANGED <<op, length, a, b, input, lseVars>>

\* InsInner with the operands of && exchanged: array[r] is read before
\* r >= L is tested.
InsInnerReadFirst ==
    /\ At("ins_inner")
    /\ LET f == Top
           idx == {f.r, f.r + 1}
       IN  IF idx \subseteq DOMAIN array
           THEN /\ IF Lt(f.swap, array[f.r]) /\ f.r >= f.L
                   THEN /\ array' = [array EXCEPT ![f.r + 1] = array[f.r]]
                        /\ stack' = SetTop([f EXCEPT !.r = f.r - 1])
                   ELSE /\ array' = [array EXCEPT ![f.r + 1] = f.swap]
                        /\ stack' = SetTop([f EXCEPT !.l = f.l + 1,
                                                     !.pc = "ins_outer"])
                /\ access' = Acc(idx, f)
                /\ UNCHANGED pc
           ELSE Undefined(idx, f)
    /\ UNCHANGED <<op, length, a, b, input, lseVars>>

\* InsInner with the loop condition r > L: never compares with array[L].
InsInnerOffByOne ==
    /\ At("ins_inner")
    /\ LET f == Top
           idx == IF f.r > f.L THEN {f.r, f.r + 1} ELSE {f.r + 1}
       IN  IF idx \subseteq DOMAIN array
           THEN /\ IF f.r > f.L /\ Lt(f.swap, array[f.r])
                   THEN /\ array' = [array EXCEPT ![f.r + 1] = array[f.r]]
                        /\ stack' = SetTop([f EXCEPT !.r = f.r - 1])
                   ELSE /\ array' = [array EXCEPT ![f.r + 1] = f.swap]
                        /\ stack' = SetTop([f EXCEPT !.l = f.l + 1,
                                                     !.pc = "ins_outer"])
                /\ access' = Acc(idx, f)
                /\ UNCHANGED pc
           ELSE Undefined(idx, f)
    /\ UNCHANGED <<op, length, a, b, input, lseVars>>

\* lines 45-47: one test of (r >= L) && (swap < array[r]); either shift
\* array[r] up and step r down, or place swap at r + 1 and step l up.
InsInner ==
    /\ At("ins_inner")
    /\ LET f == Top
           idx == IF f.r >= f.L THEN {f.r, f.r + 1} ELSE {f.r + 1}
       IN  IF idx \subseteq DOMAIN array
           THEN /\ IF f.r >= f.L /\ Lt(f.swap, array[f.r])
                   THEN /\ array' = [array EXCEPT ![f.r + 1] = array[f.r]]
                        /\ stack' = SetTop([f EXCEPT !.r = f.r - 1])
                   ELSE /\ array' = [array EXCEPT ![f.r + 1] = f.swap]
                        /\ stack' = SetTop([f EXCEPT !.l = f.l + 1,
                                                     !.pc = "ins_outer"])
                /\ access' = Acc(idx, f)
                /\ UNCHANGED pc
           ELSE Undefined(idx, f)
    /\ UNCHANGED <<op, length, a, b, input, lseVars>>

\* line 50: return to the caller.
Return ==
    /\ At("ret")
    /\ stack' = SubSeq(stack, 1, Len(stack) - 1)
    /\ access' = Acc({}, Top)
    /\ UNCHANGED <<op, array, length, a, b, pc, input, lseVars>>

rc_sort ==
    \/ Entry \/ LScan \/ RScan \/ Test \/ Swap \/ PivotSwap
    \/ RecLeft \/ RecRight \/ InsOuter \/ InsInner \/ Return

---------------------------------------------------------------------------
(* rc_logsumexp.                                                           *)

\* The value  anchor + log(1.0 + exp(t1) + ... + exp(tn))  for the exp
\* arguments terms = <<t1, ..., tn>>, added up in that order.
Expr(anchor, terms) == [kind |-> "expr", anchor |-> anchor, terms |-> terms]
NegInfResult == [kind |-> "ninf", anchor |-> NegInf, terms |-> <<>>]

\* MaxElem taken from the front of the array, as after a descending sort.
MaxElemFirst == array[0]

\* lines 57, 60, 61: array[length - 1], the maximum once the array is sorted.
MaxElem == array[length - 1]

\* LoopCond running over the whole array, the maximum included.
LoopCondWholeArray == i < length

\* line 59: the loop condition i < length - 1.
LoopCond == i < length - 1

\* MaxIsNegInf testing the smallest element instead of the largest.
MaxIsNegInfFirst == Eq(NegInf, array[0])

\* line 57: the test of the short-circuit, -INFINITY == array[length - 1].
MaxIsNegInf == Eq(NegInf, MaxElem)

\* line 56: rc_sort(array, 0, length - 1).
CallSort ==
    /\ op = "lse"
    /\ pc = "call"
    /\ stack' = <<Frame(0, length - 1)>>
    /\ pc' = "sort"
    /\ UNCHANGED <<op, array, length, a, b, input, access, lseVars>>

\* lines 57-58: the sort has returned; short-circuit on a maximum of -inf.
TestMax ==
    /\ pc = "sort"
    /\ stack = <<>>
    /\ IF MaxIsNegInf
       THEN /\ result' = NegInfResult
            /\ pc' = "done"
       ELSE /\ result' = result
            /\ pc' = "loop"
    /\ i' = 0
    /\ UNCHANGED <<op, array, length, a, b, stack, input, access, sum,
                   expArgs, logArgs>>

\* lines 59-60: one iteration, sum += exp(array[i] - array[length - 1]).
Accumulate ==
    /\ pc = "loop"
    /\ LoopCond
    /\ LET x == Sub(array[i], MaxElem)
       IN  /\ sum' = Append(sum, x)
           /\ expArgs' = Append(expArgs, x)
    /\ i' = i + 1
    /\ UNCHANGED <<op, array, length, a, b, stack, input, access, result, pc,
                   logArgs>>

\* line 61: return array[length - 1] + log(sum + 1.0).
Finish ==
    /\ pc = "loop"
    /\ ~LoopCond
    /\ result' = Expr(MaxElem, sum)
    /\ logArgs' = Append(logArgs, sum)
    /\ pc' = "done"
    /\ UNCHANGED <<op, array, length, a, b, stack, input, access, i, sum,
                   expArgs>>

rc_logsumexp == CallSort \/ rc_sort \/ TestMax \/ Accumulate \/ Finish

---------------------------------------------------------------------------
(* rc_logsumexp_pair.                                                      *)

\* lines 66-67: both arguments are -inf.
PairBothNegInf(x, y) == Eq(NegInf, x) /\ Eq(NegInf, y)

\* PairExpArg with the subtraction the other way round: larger - smaller.
PairExpArgSwapped(x, y) == IF Gt(y, x) THEN Sub(y, x) ELSE Sub(x, y)

\* lines 68-70: the argument exp is applied to.
PairExpArg(x, y) == IF Gt(y, x) THEN Sub(x, y) ELSE Sub(y, x)

\* PairAnchor always taking the first argument.
PairAnchorFirst(x, y) == x

\* lines 68-70: the value log's result is added to.
PairAnchor(x, y) == IF Gt(y, x) THEN y ELSE x

\* lines 64-71: the value returned for the arguments x, y.
PairValue(x, y) ==
    IF PairBothNegInf(x, y)
    THEN NegInfResult
    ELSE Expr(PairAnchor(x, y), <<PairExpArg(x, y)>>)

rc_logsumexp_pair ==
    /\ op = "pair"
    /\ pc = "call"
    /\ result' = PairValue(a, b)
    /\ IF PairBothNegInf(a, b)
       THEN UNCHANGED <<expArgs, logArgs>>
       ELSE /\ expArgs' = Append(expArgs, PairExpArg(a, b))
            /\ logArgs' = Append(logArgs, <<PairExpArg(a, b)>>)
    /\ pc' = "done"
    /\ UNCHANGED <<op, array, length, a, b, stack, input, access, i, sum>>

---------------------------------------------------------------------------

Next == rc_logsumexp \/ rc_logsumexp_pair

Spec == Init /\ [][Next]_vars

\* The call is single-threaded and never blocks: a step that can be taken
\* is taken.
FairSpec == Spec /\ WF_vars(Next)

---------------------------------------------------------------------------
(* Vocabulary of the properties.                                           *)

\* x <= 0 on doubles.
LeZero(x) == x.k = "ninf" \/ (x.k = "fin" /\ x.v <= 0)

\* x <= y on doubles.
Le(x, y) == Lt(x, y) \/ Eq(x, y)

\* f is in non-decreasing order over the indices lo..hi.
Sorted(f, lo, hi) == \A j \in lo..(hi - 1) : Le(f[j], f[j + 1])

\* How often the value v occurs in f over the indices lo..hi.
Count(f, lo, hi, v) == Cardinality({j \in lo..hi : f[j] = v})

\* f and g hold the same multiset of values over the indices lo..hi.
SameBag(f, g, lo, hi) ==
    \A v \in {f[j] : j \in lo..hi} \cup {g[j] : j \in lo..hi} :
        Count(f, lo, hi, v) = Count(g, lo, hi, v)

\* Some value occurs twice in f over the indices lo..hi.
HasDuplicates(f, lo, hi) ==
    \E j, k \in lo..hi : j # k /\ f[j] = f[k]

\* A largest element of the non-empty array f.
MaxOf(f) == CHOOSE x \in {f[j] : j \in DOMAIN f} :
                \A j \in DOMAIN f : ~Lt(x, f[j])

AllFinite(f) == \A j \in DOMAIN f : f[j].k = "fin"
AllNegInf(f) == \A j \in DOMAIN f : f[j] = NegInf

\* rc_logsumexp has returned.
LseDone == op = "lse" /\ pc = "done"

\* rc_logsumexp_pair has returned.
PairDone == op = "pair" /\ pc = "done"

---------------------------------------------------------------------------
(* C1: when a call rc_sort(array, L, R) returns, whatever the length of    *)
(* L..R, the elements at L..R are in non-decreasing order and are a        *)
(* permutation of the elements that were at L..R when it was called.       *)
C1_SortCorrect ==
    /\ At("ret") =>
          /\ Sorted(array, Top.L, Top.R)
          /\ SameBag(array, Top.old, Top.L, Top.R)
    /\ (pc \in {"loop", "done"} /\ op = "lse") =>
          /\ Sorted(array, 0, length - 1)
          /\ SameBag(array, input, 0, length - 1)

\* A quicksort call returns on a range with duplicates that was unsorted.
C1_Witness ==
    /\ At("ret")
    /\ Top.R - Top.L > Threshold
    /\ HasDuplicates(Top.old, Top.L, Top.R)
    /\ ~Sorted(Top.old, Top.L, Top.R)

(* C7 as stated: every time the right-cursor scan stops, r >= l.           *)
C7_RightCursorStopsAtOrAfterLeft == At("test") => Top.r >= Top.l

(* C7, amended: each evaluation of the right scan's condition first steps  *)
(* r back by one; the scan goes on exactly when the element now under r is *)
(* strictly greater than the pivot array[R] and r > l; and when it stops,  *)
(* r >= l - 1 and r >= L.                                                  *)
C7_RightScanRule ==
    [][(At("rscan") /\ pc' = "sort") =>
          LET f == Top
              g == stack'[Len(stack')]
          IN  /\ Len(stack') = Len(stack)
              /\ g.r = f.r - 1
              /\ g.l = f.l
              /\ g.pc \in {"rscan", "test"}
              /\ g.pc = "rscan" <=> (Gt(array[g.r], array[g.R]) /\ g.r > g.l)
              /\ g.pc = "test" => (g.r >= g.l - 1 /\ g.r >= g.L)]_vars

\* The right scan stops one position to the left of the left cursor, on a
\* range whose elements before the pivot are all strictly less than it.
C7_Witness ==
    /\ At("test")
    /\ Top.r = Top.l - 1
    /\ Top.l = Top.R
    /\ \A j \in Top.L..(Top.R - 1) : Lt(array[j], array[Top.R])

(* C8: after the partition loop and the exchange of array[l] with          *)
(* array[R], the pivot value is at index l with L <= l <= R, nothing       *)
(* before it in L..R is greater and nothing after it is smaller; and every *)
(* recursive call on the stack is on L..l-1 or on l+1..R of its caller.    *)
C8_PivotPlaced ==
    /\ At("rec1") =>
          LET f == Top
          IN  /\ f.L <= f.l
              /\ f.l <= f.R
              /\ array[f.l] = f.old[f.R]
              /\ \A j \in f.L..(f.l - 1) : Le(array[j], array[f.l])
              /\ \A j \in (f.l + 1)..f.R : Le(array[f.l], array[j])
    /\ \A k \in 2..Len(stack) :
          LET p == stack[k - 1]
              c == stack[k]
          IN  \/ p.pc = "rec2" /\ c.L = p.L /\ c.R = p.l - 1
              \/ p.pc = "ret" /\ c.L = p.l + 1 /\ c.R = p.R

\* The pivot has been placed strictly inside a range that holds other
\* elements equal to it.
C8_Witness ==
    /\ At("rec1")
    /\ Top.L < Top.l
    /\ Top.l < Top.R
    /\ \E j \in Top.L..Top.R : j # Top.l /\ array[j] = array[Top.l]

(* C10: every index a step of rc_sort reads or writes lies in the L..R of  *)
(* the call that makes the step, no access leaves the caller's array, and  *)
(* every call on the stack has left the elements outside its L..R as they  *)
(* were when it was called; a call with L > R touches nothing.             *)
C10_AccessInRange ==
    /\ pc # "undefined"
    /\ access.idx \subseteq access.L..access.R
    /\ access.L > access.R => access.idx = {}
    /\ \A k \in 1..Len(stack) :
          \A j \in DOMAIN array \ (stack[k].L..stack[k].R) :
              array[j] = stack[k].old[j]

\* The call on the empty range L..l-1, made when the pivot landed at L,
\* returns.
C10_Witness ==
    /\ At("ret")
    /\ Len(stack) >= 2
    /\ Top.L > Top.R
    /\ stack[Len(stack) - 1].pc = "rec2"
    /\ stack[Len(stack) - 1].l = stack[Len(stack) - 1].L

---------------------------------------------------------------------------
(* C2: when the maximum of the input is not -inf, rc_logsumexp returns     *)
(* max + log(1.0 + sum), where sum adds exp(x - max) over the first        *)
(* length - 1 elements of the sorted array in ascending order: the input   *)
(* multiset with one occurrence of the maximum left out.  exp is evaluated *)
(* on exactly those length - 1 arguments and log once.                     *)
C2_SumOverAllButMax ==
    (LseDone /\ MaxOf(input) # NegInf) =>
        /\ result.kind = "expr"
        /\ result.anchor = MaxOf(input)
        /\ array[length - 1] = MaxOf(input)
        /\ SameBag(array, input, 0, length - 1)
        /\ Sorted(array, 0, length - 1)
        /\ result.terms = [j \in 1..(length - 1) |->
                              Sub(array[j - 1], MaxOf(input))]
        /\ expArgs = result.terms
        /\ logArgs = <<result.terms>>

\* A call has returned for an array of three or more elements in which the
\* maximum occurs more than once.
C2_Witness ==
    /\ LseDone
    /\ length >= 3
    /\ MaxOf(input) # NegInf
    /\ Count(input, 0, length - 1, MaxOf(input)) >= 2
    /\ Len(result.terms) = length - 1

\* A call has returned for an array of one element: no exp term.
C2_WitnessSingle ==
    /\ LseDone
    /\ length = 1
    /\ result = Expr(input[0], <<>>)

(* C3: for elements that are finite or -inf, rc_logsumexp returns -inf by  *)
(* the short-circuit, with no exp and no log evaluated, exactly when every *)
(* element is -inf; otherwise no exp argument is NaN, so that every exp    *)
(* term is >= 0 and the argument of log, 1.0 + sum, is at least 1.         *)
C3_ShortCircuit ==
    /\ op = "lse" => \A j \in 1..Len(expArgs) : expArgs[j] # NaN
    /\ LseDone =>
          /\ result.kind = "ninf" <=> AllNegInf(input)
          /\ result.kind = "ninf" => (expArgs = <<>> /\ logArgs = <<>>)
          /\ result.kind # "ninf" =>
                /\ result.kind = "expr"
                /\ result.anchor.k = "fin"
                /\ Len(logArgs) = 1
                /\ \A j \in 1..Len(logArgs[1]) : logArgs[1][j] # NaN

\* A call has returned -inf for an array of several -inf.
C3_Witness ==
    /\ LseDone
    /\ length >= 3
    /\ AllNegInf(input)
    /\ result = NegInfResult

\* A call has returned a finite value for an array holding -inf twice.
C3_WitnessMixed ==
    /\ LseDone
    /\ Count(input, 0, length - 1, NegInf) >= 2
    /\ result.kind = "expr"

(* C4: for finite elements of any magnitude and in any order, every        *)
(* argument rc_logsumexp passes to exp is <= 0 and at most length - 1      *)
(* terms are added; for two elements equal to the largest finite value     *)
(* the only exp argument is 0 and the result is that value + log(1 + e^0). *)
C4_ExpArgsNonPositive ==
    (op = "lse" /\ AllFinite(input)) =>
        /\ \A j \in 1..Len(expArgs) : LeZero(expArgs[j])
        /\ Len(sum) <= length - 1
        /\ (pc = "done" /\ input = [j \in 0..1 |-> Fin(DBL_MAX)]) =>
              /\ expArgs = <<Fin(0)>>
              /\ result = Expr(Fin(DBL_MAX), <<Fin(0)>>)

\* A call has returned for an unsorted array of finite values whose
\* largest difference overflows.
C4_Witness ==
    /\ LseDone
    /\ AllFinite(input)
    /\ ~Sorted(input, 0, length - 1)
    /\ \E j \in 1..Len(expArgs) : expArgs[j] = NegInf

\* The call on two elements equal to the largest finite value has returned.
C4_WitnessEqual ==
    /\ LseDone
    /\ input = [j \in 0..1 |-> Fin(DBL_MAX)]

(* C5: for a and b finite or -inf, rc_logsumexp_pair returns -inf with no  *)
(* exp and no log evaluated when both are -inf; otherwise it returns       *)
(* m + log(1 + exp(n - m)) with m the larger and n the smaller of the two  *)
(* (m = a when a == b), n - m is <= 0 and not NaN, and when one argument   *)
(* is -inf and the other is finite the exp argument is -inf.               *)
C5_PairAnchoredAtLarger ==
    PairDone =>
        LET m == IF Lt(a, b) THEN b ELSE a
            n == IF Lt(a, b) THEN a ELSE b
        IN  /\ (a = NegInf /\ b = NegInf) =>
                  /\ result = NegInfResult
                  /\ expArgs = <<>>
                  /\ logArgs = <<>>
            /\ ~(a = NegInf /\ b = NegInf) =>
                  /\ result = Expr(m, <<Sub(n, m)>>)
                  /\ expArgs = <<Sub(n, m)>>
                  /\ logArgs = <<expArgs>>
                  /\ LeZero(expArgs[1])
                  /\ expArgs[1] # NaN
                  /\ (n = NegInf) => expArgs[1] = NegInf
                  /\ (a = b) => result.anchor = a

\* The pair call has returned for a = -inf and a finite b.
C5_Witness ==
    /\ PairDone
    /\ a = NegInf
    /\ b.k = "fin"
    /\ result = Expr(b, <<NegInf>>)

\* The pair call has returned for a = b = -inf.
C5_WitnessBoth ==
    /\ PairDone
    /\ a = NegInf
    /\ b = NegInf

(* C6: for finite a and b, rc_logsumexp on the array [a, b] returns the    *)
(* value rc_logsumexp_pair returns for (a, b) and for (b, a): the anchor   *)
(* is the larger of the two and the one exp argument is smaller - larger.  *)
C6_PairArrayAgree ==
    (LseDone /\ length = 2 /\ AllFinite(input)) =>
        LET x == input[0]
            y == input[1]
            m == IF Lt(x, y) THEN y ELSE x
            n == IF Lt(x, y) THEN x ELSE y
        IN  /\ result = PairValue(x, y)
            /\ result = PairValue(y, x)
            /\ result = Expr(m, <<Sub(n, m)>>)

\* The array call has returned for two different finite values given in
\* descending order.
C6_Witness ==
    /\ LseDone
    /\ length = 2
    /\ AllFinite(input)
    /\ Lt(input[1], input[0])
    /\ result = PairValue(input[0], input[1])

(* C9: rc_sort terminates.  Each evaluation of a scan condition moves its  *)
(* cursor by one position, towards the other end, each recursive call is   *)
(* on a range strictly shorter than its caller's, and every call of        *)
(* rc_logsumexp and rc_logsumexp_pair eventually returns.                  *)
C9_Terminates ==
    /\ [][/\ (At("lscan") /\ pc' = "sort") =>
                stack'[Len(stack')].l = Top.l + 1
          /\ (At("rscan") /\ pc' = "sort") =>
                stack'[Len(stack')].r = Top.r - 1
          /\ (At("lscan") \/ At("rscan") \/ At("test") \/ At("swap")) =>
                /\ Top.l <= Top.R
                /\ Top.r >= Top.L - 1
                /\ Top.r <= Top.R
          /\ (Len(stack') > Len(stack) /\ stack # <<>>) =>
                LET g == stack'[Len(stack')]
                IN  g.R - g.L < Top.R - Top.L]_vars
    /\ <>(pc = "done")

\* rc_logsumexp has returned after a quicksort whose partition loop
\* exchanged elements: the sorted array differs from the input.
C9_Witness ==
    /\ LseDone
    /\ length - 1 > Threshold
    /\ array # input
    /\ HasDuplicates(input, 0, length - 1)

====
